---- MODULE Spec2Model ----
(***************************************************************************)
(* Expense-Tracker persistent store: the JSON repository, the persistence  *)
(* manager's save path and the schema migration engine, as state machines. *)
(*                                                                         *)
(* Representation.  A JSON object (a Python dict) is a TLA+ record whose   *)
(* DOMAIN is its key set, so a missing key is a missing field.  A file's   *)
(* content is [kind |-> "absent"], unparsable bytes, a JSON value that is  *)
(* no object, or [kind |-> "object", obj |-> the dict].  json.dump and     *)
(* json.load are inverse on the value types the store holds (str, bool,    *)
(* list, dict), so the content of a written file is the dict itself.       *)
(* A datetime is [t, aware]; its ISO string is [iso, tz].  A Decimal is an *)
(* integer; its string is [dec |-> n].  A description is [lead, core,      *)
(* trail]: the count of leading whitespace, of the characters from the     *)
(* first to the last non-blank one, and of trailing whitespace.            *)
(***************************************************************************)
EXTENDS Integers, Sequences, FiniteSets, TLC

VARIABLES
    store,      \* content of the store file (data_file_path)
    tmp,        \* content of the repository's temporary file
    backups,    \* the backups/ directory: a set of [name, content]
    data,       \* JSONRepository._data, the in-memory document
    last,       \* the last completed call: operation, arguments, result
    pc,         \* position of the call in progress (save path, step by step)
    pend,       \* the call in progress: what is being written, and for whom
    mtmp,       \* content of the persistence manager's temporary file
    mdoc,       \* migration engine: the document passed to migrate_data
    mout,       \* migration engine: the document migrate_data returned
    mlast,      \* migration engine: the last call made
    mres        \* persistence manager, backup manager: how the last call ended

vars == <<store, tmp, backups, data, last, pc, pend, mtmp, mdoc, mout, mlast, mres>>
repoVars == <<store, tmp, backups, data, last>>
stepVars == <<pc, pend, mtmp>>
migVars == <<mdoc, mout, mlast>>
mgrVars == <<mres>>

-----------------------------------------------------------------------------
(* Bounds of the model *)

MaxTime == 0

Times == 0..MaxTime

-----------------------------------------------------------------------------
(* Values *)

NoneStr == "<None>"

Absent == [kind |-> "absent"]
Garbage == [kind |-> "garbage"]
NonObject == [kind |-> "nonobject"]
ObjectFile(d) == [kind |-> "object", obj |-> d]

Get(rec, key, default) == IF key \in DOMAIN rec THEN rec[key] ELSE default

Text(lead, core, trail) == [lead |-> lead, core |-> core, trail |-> trail]
TextLen(s) == s.lead + s.core + s.trail
TextStrip(s) == Text(0, s.core, 0)

StripName(s) == IF s = " " THEN "" ELSE s

DateTime(t, aware) == [t |-> t, aware |-> aware]
IsoFormat(d) == [iso |-> d.t, tz |-> d.aware]
IsIsoString(s) == DOMAIN s = {"iso", "tz"}
FromIsoFormat(s) == DateTime(s.iso, s.tz)

DecimalStr(n) == [dec |-> n]
IsDecimalStr(s) == DOMAIN s = {"dec"}

TransactionTypes == {"INCOME", "EXPENSE"}
CategoryTypes == {"INCOME", "EXPENSE"}

-----------------------------------------------------------------------------
(* models/transaction.py *)

DescMaxLen == 200
NameMaxLen == 50

\* as TransactionErrors, with "amount < 0" for "amount <= 0"
TransactionErrors_ZeroAllowed(t) ==
    (IF t.amount < 0 THEN {"Amount must be greater than zero"} ELSE {})
    \cup (IF TextLen(t.description) = 0 \/ TextLen(TextStrip(t.description)) = 0
            THEN {"Description is required"}
          ELSE IF TextLen(TextStrip(t.description)) > DescMaxLen
            THEN {"Description must be 200 characters or less"}
          ELSE {})
    \cup (IF t.category = "" \/ StripName(t.category) = ""
            THEN {"Category is required"} ELSE {})
    \cup (IF t.transaction_type \notin TransactionTypes
            THEN {"Transaction type must be INCOME or EXPENSE"} ELSE {})

TransactionErrors(t) ==
    (IF t.amount <= 0 THEN {"Amount must be greater than zero"} ELSE {})
    \cup (IF TextLen(t.description) = 0 \/ TextLen(TextStrip(t.description)) = 0
            THEN {"Description is required"}
          ELSE IF TextLen(TextStrip(t.description)) > DescMaxLen
            THEN {"Description must be 200 characters or less"}
          ELSE {})
    \cup (IF t.category = "" \/ StripName(t.category) = ""
            THEN {"Category is required"} ELSE {})
    \cup (IF t.transaction_type \notin TransactionTypes
            THEN {"Transaction type must be INCOME or EXPENSE"} ELSE {})

TransactionIsValid(t) == TransactionErrors(t) = {}

TransactionToDict(t) ==
    [id |-> t.id,
     amount |-> DecimalStr(t.amount),
     description |-> t.description,
     category |-> t.category,
     date |-> IsoFormat(t.date),
     transaction_type |-> t.transaction_type,
     created_at |-> IsoFormat(t.created_at)]

\* from_dict raises (KeyError, InvalidOperation, ValueError) exactly when this
\* is false.  A missing date or created_at is not an error: __post_init__
\* fills it with the current time; a missing id is filled with a fresh uuid.
TransactionParses(r) ==
    /\ {"amount", "description", "category", "transaction_type"} \subseteq DOMAIN r
    /\ IsDecimalStr(r.amount)
    /\ ("date" \in DOMAIN r => IsIsoString(r.date))
    /\ r.transaction_type \in TransactionTypes
    /\ ("created_at" \in DOMAIN r => IsIsoString(r.created_at))

GeneratedId == "uuid4"

TransactionFromDict(r, now) ==
    [id |-> Get(r, "id", GeneratedId),
     amount |-> r.amount.dec,
     description |-> r.description,
     category |-> r.category,
     date |-> IF "date" \in DOMAIN r THEN FromIsoFormat(r.date) ELSE DateTime(now, FALSE),
     transaction_type |-> r.transaction_type,
     created_at |-> IF "created_at" \in DOMAIN r THEN FromIsoFormat(r.created_at)
                    ELSE DateTime(now, FALSE)]

-----------------------------------------------------------------------------
(* models/category.py *)

CategoryErrors(c) ==
    (IF c.name = "" \/ StripName(c.name) = ""
        THEN {"Category name is required"}
     ELSE IF Len(StripName(c.name)) > NameMaxLen
        THEN {"Category name must be 50 characters or less"}
     ELSE {})
    \cup (IF c.category_type \notin CategoryTypes
            THEN {"Category type must be INCOME or EXPENSE"} ELSE {})

CategoryIsValid(c) == CategoryErrors(c) = {}

Category(name, type, isDefault) ==
    [name |-> name, category_type |-> type, is_default |-> isDefault]

CategoryToDict(c) ==
    [name |-> c.name, category_type |-> c.category_type, is_default |-> c.is_default]

CategoryParses(r) ==
    /\ {"name", "category_type"} \subseteq DOMAIN r
    /\ r.category_type \in CategoryTypes

CategoryFromDict(r) ==
    Category(r.name, r.category_type, Get(r, "is_default", FALSE))

DEFAULT_CATEGORIES ==
    << Category("Salary", "INCOME", TRUE),
       Category("Freelance", "INCOME", TRUE),
       Category("Investment", "INCOME", TRUE),
       Category("Other Income", "INCOME", TRUE),
       Category("Food", "EXPENSE", TRUE),
       Category("Transportation", "EXPENSE", TRUE),
       Category("Entertainment", "EXPENSE", TRUE),
       Category("Utilities", "EXPENSE", TRUE),
       Category("Healthcare", "EXPENSE", TRUE),
       Category("Shopping", "EXPENSE", TRUE),
       Category("Other Expense", "EXPENSE", TRUE) >>

-----------------------------------------------------------------------------
(* repositories/json_repository.py: the document and its helpers *)

EmptyDict == <<>>

Unloaded == [unloaded |-> TRUE]
IsLoaded(d) == "transactions" \in DOMAIN d

EmptyData(now) ==
    [transactions |-> <<>>,
     categories |-> <<>>,
     metadata |-> [version |-> "1.0", created_at |-> now, last_modified |-> now]]

\* _save_data, first statement: the timestamp is set in the in-memory document
Stamp(d, now) ==
    [d EXCEPT !.metadata = [last_modified |-> now] @@ d.metadata]

\* _load_data on a parsed JSON object: the three required keys are added in
\* memory when absent; nothing is written
EnsureKeys(obj) ==
    obj @@ [transactions |-> <<>>, categories |-> <<>>, metadata |-> EmptyDict]

RECURSIVE FirstIndex(_, _, _, _)
\* index of the first record of seq whose key equals val, 0 when there is none
FirstIndex(seq, key, val, i) ==
    IF i > Len(seq) THEN 0
    ELSE IF Get(seq[i], key, NoneStr) = val THEN i
    ELSE FirstIndex(seq, key, val, i + 1)

Without(seq, key, val) ==
    SelectSeq(seq, LAMBDA r : Get(r, key, NoneStr) # val)

\* as UpsertTransaction, without the search for the identifier
UpsertTransaction_AlwaysAppend(d, t) ==
    [d EXCEPT !.transactions = Append(@, TransactionToDict(t))]

\* the in-memory effect of save_transaction on a valid transaction
UpsertTransaction(d, t) ==
    LET i == FirstIndex(d.transactions, "id", t.id, 1)
        rec == TransactionToDict(t)
    IN  IF i # 0 THEN [d EXCEPT !.transactions[i] = rec]
        ELSE [d EXCEPT !.transactions = Append(@, rec)]

\* as UpsertCategory, without the search for the name
UpsertCategory_AlwaysAppend(d, c) ==
    [d EXCEPT !.categories = Append(@, CategoryToDict(c))]

\* the in-memory effect of save_category on a valid category
UpsertCategory(d, c) ==
    LET i == FirstIndex(d.categories, "name", c.name, 1)
        rec == CategoryToDict(c)
    IN  IF i # 0 THEN [d EXCEPT !.categories[i] = rec]
        ELSE [d EXCEPT !.categories = Append(@, rec)]

RemoveTransaction(d, id) ==
    [d EXCEPT !.transactions = Without(@, "id", id)]

\* as IsDefaultStored, with the protection left out
IsDefaultStored_Never(d, name) == FALSE

\* delete_category, lines 257-260: some record of that name is a default
IsDefaultStored(d, name) ==
    \E i \in 1..Len(d.categories) :
        /\ Get(d.categories[i], "name", NoneStr) = name
        /\ Get(d.categories[i], "is_default", FALSE)

RemoveCategory(d, name) ==
    [d EXCEPT !.categories = Without(@, "name", name)]

StoredNames(d) ==
    {Get(d.categories[i], "name", NoneStr) : i \in 1..Len(d.categories)}

RECURSIVE AppendMissing(_, _, _, _)
\* initialize_storage, lines 281-285: the names are collected once, before the loop
AppendMissing(cats, names, defaults, k) ==
    IF k > Len(defaults) THEN cats
    ELSE AppendMissing(
            IF defaults[k].name \notin names
                THEN Append(cats, CategoryToDict(defaults[k])) ELSE cats,
            names, defaults, k + 1)

SeedDefaults(d) ==
    [d EXCEPT !.categories = AppendMissing(@, StoredNames(d), DEFAULT_CATEGORIES, 1)]

-----------------------------------------------------------------------------
(* repositories/json_repository.py: the listings *)

ParsedTransactions(d, now) ==
    LET ok == SelectSeq(d.transactions, TransactionParses)
    IN  [i \in 1..Len(ok) |-> TransactionFromDict(ok[i], now)]

ParsedCategories(d) ==
    LET ok == SelectSeq(d.categories, CategoryParses)
    IN  [i \in 1..Len(ok) |-> CategoryFromDict(ok[i])]

\* datetime.__lt__ raises TypeError between an offset-naive and an offset-aware
\* value; list.sort compares neighbours, so a mixed list cannot be sorted
SortRaises(ts) ==
    \E i, j \in 1..Len(ts) : ts[i].date.aware # ts[j].date.aware

RECURSIVE InsertDesc(_, _)
\* x goes after every element whose date is not older: stable, newest first
InsertDesc(sorted, x) ==
    IF sorted = <<>> THEN <<x>>
    ELSE IF Head(sorted).date.t >= x.date.t
        THEN <<Head(sorted)>> \o InsertDesc(Tail(sorted), x)
    ELSE <<x>> \o sorted

RECURSIVE SortByDateDesc(_, _)
SortByDateDesc(ts, acc) ==
    IF ts = <<>> THEN acc
    ELSE SortByDateDesc(Tail(ts), InsertDesc(acc, Head(ts)))

\* str.__lt__ on the names of the model, by code point
NameOrder ==
    << "", " ", "Custom", "Entertainment", "Food", "Freelance", "Healthcare",
       "Investment", "Other Expense", "Other Income", "Salary", "Shopping",
       "Transportation", "Utilities" >>

NameRank(n) == CHOOSE i \in 1..Len(NameOrder) : NameOrder[i] = n

RECURSIVE InsertByName(_, _)
InsertByName(sorted, x) ==
    IF sorted = <<>> THEN <<x>>
    ELSE IF NameRank(Head(sorted).name) <= NameRank(x.name)
        THEN <<Head(sorted)>> \o InsertByName(Tail(sorted), x)
    ELSE <<x>> \o sorted

RECURSIVE SortByName(_, _)
SortByName(cs, acc) ==
    IF cs = <<>> THEN acc
    ELSE SortByName(Tail(cs), InsertByName(acc, Head(cs)))

\* get_all_transactions: the outer handler turns the sort's TypeError into []
GetAllTransactions(d, now) ==
    LET ts == ParsedTransactions(d, now)
    IN  IF SortRaises(ts) THEN <<>> ELSE SortByDateDesc(ts, <<>>)

GetAllCategories(d) == SortByName(ParsedCategories(d), <<>>)

-----------------------------------------------------------------------------
(* The inputs the calls are made with *)

TxIds == {"t1", "t2"}
UsedCategories == {"Food", "Custom"}

Coffee == Text(0, 6, 0)
Padded == Text(0, DescMaxLen, 1)        \* 200 characters and a trailing blank
TooLong == Text(0, DescMaxLen + 1, 0)
Blank == Text(1, 0, 0)
Empty == Text(0, 0, 0)

Tx(id, amount, desc, cat, type, date) ==
    [id |-> id, amount |-> amount, description |-> desc, category |-> cat,
     transaction_type |-> type, date |-> date, created_at |-> DateTime(0, FALSE)]

NoTx == [none |-> TRUE]
NoCat == [none |-> TRUE]

ValidTxInputs ==
    {Tx("t1", 5, Coffee, "Food", "EXPENSE", DateTime(1, FALSE)),
     Tx("t1", 5, Coffee, "Custom", "EXPENSE", DateTime(2, FALSE)),
     Tx("t2", 5, Coffee, "Custom", "EXPENSE", DateTime(2, FALSE)),
     Tx("t2", 5, Coffee, "Food", "EXPENSE", DateTime(2, TRUE)),
     Tx("t1", 5, Padded, "Food", "INCOME", DateTime(1, FALSE))}

InvalidTxInputs ==
    {Tx("t1", 0, Coffee, "Food", "EXPENSE", DateTime(1, FALSE)),
     Tx("t1", 5, Empty, "Food", "EXPENSE", DateTime(1, FALSE)),
     Tx("t1", 5, Blank, "Food", "EXPENSE", DateTime(1, FALSE)),
     Tx("t1", 5, TooLong, "Food", "EXPENSE", DateTime(1, FALSE)),
     Tx("t1", 5, Coffee, "Food", "TRANSFER", DateTime(1, FALSE))}

TxInputs == ValidTxInputs \cup InvalidTxInputs

UpdateInputs ==
    {Tx("t1", 5, Coffee, "Custom", "EXPENSE", DateTime(2, FALSE)),
     Tx("t2", 5, Coffee, "Food", "EXPENSE", DateTime(2, TRUE))}

CatInputs ==
    {Category("Food", "EXPENSE", TRUE), Category("Food", "EXPENSE", FALSE),
     Category("Custom", "EXPENSE", FALSE), Category("Custom", "INCOME", FALSE),
     Category(" ", "EXPENSE", FALSE), Category("Custom", "BOTH", FALSE)}

\* A store file left by an earlier version or edited by hand: a transaction
\* whose amount is no number, a category name stored twice, no metadata
LegacyDoc ==
    [transactions |->
        << [id |-> "t1", amount |-> [bad |-> "abc"], description |-> Coffee,
            category |-> "Food", date |-> IsoFormat(DateTime(0, FALSE)),
            transaction_type |-> "EXPENSE"] >>,
     categories |->
        << CategoryToDict(Category("Custom", "EXPENSE", FALSE)),
           CategoryToDict(Category("Custom", "INCOME", FALSE)) >>]

InitialStores == {Absent, ObjectFile(LegacyDoc)}

\* what a repository may be opened over
OpenedStores == {Absent, Garbage, NonObject, ObjectFile(LegacyDoc)}

-----------------------------------------------------------------------------
(* The files *)

BackupName(prefix, ts) == [prefix |-> prefix, ts |-> ts]

\* shutil.copy2 into the backup directory: a file of that name is overwritten
PutFile(dir, name, content) ==
    {f \in dir : f.name # name} \cup {[name |-> name, content |-> content]}

Called(op, ret, tx, cat, name) ==
    [op |-> op, ret |-> ret, tx |-> tx, cat |-> cat, name |-> name]

NoPend == [op |-> "none"]

-----------------------------------------------------------------------------
(* repositories/json_repository.py: the calls, each one whole *)

\* _save_data: the timestamp goes into the in-memory document, the document
\* into the temporary file, and the temporary file is renamed over the store
Saved(d, now) ==
    /\ data' = Stamp(d, now)
    /\ store' = ObjectFile(data')
    /\ tmp' = Absent

\* as HandleDataCorruption, with the copy made after the file is replaced
HandleDataCorruption_CopyLate(now) ==
    /\ Saved(EmptyData(now), now)
    /\ backups' = IF store.kind # "absent"
                    THEN PutFile(backups, BackupName("corrupted_data", now), store')
                    ELSE backups

\* _handle_data_corruption: the unreadable file is copied, then replaced
HandleDataCorruption(now) ==
    /\ backups' = IF store.kind # "absent"
                    THEN PutFile(backups, BackupName("corrupted_data", now), store)
                    ELSE backups
    /\ Saved(EmptyData(now), now)

\* _load_data
LoadData(now) ==
    IF store.kind = "object"
      THEN /\ data' = EnsureKeys(store.obj)
           /\ UNCHANGED <<store, tmp, backups>>
    ELSE IF store.kind = "absent"
      THEN /\ Saved(EmptyData(now), now)
           /\ UNCHANGED backups
    ELSE HandleDataCorruption(now)

\* __init__
Construct(now) ==
    /\ pc = "idle"
    /\ LoadData(now)
    /\ last' = Called("construct", TRUE, NoTx, NoCat, NoneStr)
    /\ UNCHANGED <<stepVars, migVars, mgrVars>>

SaveTransactionAs(op, t, now) ==
    /\ pc = "idle" /\ IsLoaded(data)
    /\ IF ~TransactionIsValid(t)
         THEN /\ UNCHANGED <<store, tmp, data>>
              /\ last' = Called(op, FALSE, t, NoCat, NoneStr)
       ELSE /\ Saved(UpsertTransaction(data, t), now)
            /\ last' = Called(op, TRUE, t, NoCat, NoneStr)
    /\ UNCHANGED <<backups, stepVars, migVars, mgrVars>>

SaveTransaction(t, now) == SaveTransactionAs("save_transaction", t, now)

UpdateTransaction(t, now) == SaveTransactionAs("update_transaction", t, now)

DeleteTransaction(id, now) ==
    /\ pc = "idle" /\ IsLoaded(data)
    /\ IF Len(RemoveTransaction(data, id).transactions) < Len(data.transactions)
         THEN /\ Saved(RemoveTransaction(data, id), now)
              /\ last' = Called("delete_transaction", TRUE, NoTx, NoCat, id)
       ELSE /\ UNCHANGED <<store, tmp, data>>
            /\ last' = Called("delete_transaction", FALSE, NoTx, NoCat, id)
    /\ UNCHANGED <<backups, stepVars, migVars, mgrVars>>

SaveCategory(c, now) ==
    /\ pc = "idle" /\ IsLoaded(data)
    /\ IF ~CategoryIsValid(c)
         THEN /\ UNCHANGED <<store, tmp, data>>
              /\ last' = Called("save_category", FALSE, NoTx, c, NoneStr)
       ELSE /\ Saved(UpsertCategory(data, c), now)
            /\ last' = Called("save_category", TRUE, NoTx, c, NoneStr)
    /\ UNCHANGED <<backups, stepVars, migVars, mgrVars>>

DeleteCategory(name, now) ==
    /\ pc = "idle" /\ IsLoaded(data)
    /\ IF IsDefaultStored(data, name)
         THEN /\ UNCHANGED <<store, tmp, data>>
              /\ last' = Called("delete_category", FALSE, NoTx, NoCat, name)
       ELSE IF Len(RemoveCategory(data, name).categories) < Len(data.categories)
         THEN /\ Saved(RemoveCategory(data, name), now)
              /\ last' = Called("delete_category", TRUE, NoTx, NoCat, name)
       ELSE /\ UNCHANGED <<store, tmp, data>>
            /\ last' = Called("delete_category", FALSE, NoTx, NoCat, name)
    /\ UNCHANGED <<backups, stepVars, migVars, mgrVars>>

InitializeStorage(now) ==
    /\ pc = "idle" /\ IsLoaded(data)
    /\ Saved(SeedDefaults(data), now)
    /\ last' = Called("initialize_storage", TRUE, NoTx, NoCat, NoneStr)
    /\ UNCHANGED <<backups, stepVars, migVars, mgrVars>>

ListTransactions ==
    /\ pc = "idle" /\ IsLoaded(data)
    /\ last' = Called("get_all_transactions", TRUE, NoTx, NoCat, NoneStr)
    /\ UNCHANGED <<store, tmp, backups, data, stepVars, migVars, mgrVars>>

ListCategories ==
    /\ pc = "idle" /\ IsLoaded(data)
    /\ last' = Called("get_all_categories", TRUE, NoTx, NoCat, NoneStr)
    /\ UNCHANGED <<store, tmp, backups, data, stepVars, migVars, mgrVars>>

-----------------------------------------------------------------------------
(* The repository, call by call *)

NoDoc == [none |-> TRUE]

InitRepo ==
    /\ store \in InitialStores
    /\ tmp = Absent
    /\ backups = {}
    /\ data = Unloaded
    /\ last = Called("none", TRUE, NoTx, NoCat, NoneStr)

IdleSteps == pc = "idle" /\ pend = NoPend /\ mtmp = Absent

IdleMigration == mdoc = NoDoc /\ mout = NoDoc /\ mlast = "none"

NoCall == [op |-> "none"]

IdleManager == mres = NoCall

Init == InitRepo /\ IdleSteps /\ IdleMigration /\ IdleManager

Next ==
    \/ \E now \in Times : Construct(now)
    \/ \E t \in TxInputs, now \in Times : SaveTransaction(t, now)
    \/ \E t \in UpdateInputs, now \in Times : UpdateTransaction(t, now)
    \/ \E id \in TxIds, now \in Times : DeleteTransaction(id, now)
    \/ \E c \in CatInputs, now \in Times : SaveCategory(c, now)
    \/ \E n \in UsedCategories, now \in Times : DeleteCategory(n, now)
    \/ \E now \in Times : InitializeStorage(now)
    \/ ListTransactions
    \/ ListCategories

Spec == Init /\ [][Next]_vars

-----------------------------------------------------------------------------
(* Opening a repository over any file, and the first calls made on it *)

InitOpen ==
    /\ store \in OpenedStores
    /\ tmp = Absent
    /\ backups = {}
    /\ data = Unloaded
    /\ last = Called("none", TRUE, NoTx, NoCat, NoneStr)
    /\ IdleSteps /\ IdleMigration /\ IdleManager

NextOpen ==
    \/ \E now \in Times : Construct(now)
    \/ \E now \in Times : InitializeStorage(now)
    \/ \E t \in ValidTxInputs, now \in Times : SaveTransaction(t, now)
    \/ \E c \in CatInputs, now \in Times : SaveCategory(c, now)
    \/ ListTransactions
    \/ ListCategories

SpecOpen == InitOpen /\ [][NextOpen]_vars

-----------------------------------------------------------------------------
(* Properties of the repository *)

Untouched == data' = data /\ store' = store /\ tmp' = tmp /\ backups' = backups

IdAt(d, i) == Get(d.transactions[i], "id", NoneStr)

NoDuplicateIds(d) ==
    \A i, j \in 1..Len(d.transactions) : IdAt(d, i) = IdAt(d, j) => i = j

C2_SaveStep ==
    (last'.op \in {"save_transaction", "update_transaction"} /\ last'.ret) =>
        LET t == last'.tx
            hit == {i \in 1..Len(data.transactions) : IdAt(data, i) = t.id}
        IN  IF hit # {}
              THEN /\ Len(data'.transactions) = Len(data.transactions)
                   /\ \A i \in 1..Len(data.transactions) :
                        data'.transactions[i] =
                            IF i \in hit THEN TransactionToDict(t) ELSE data.transactions[i]
            ELSE data'.transactions = Append(data.transactions, TransactionToDict(t))

\* C2: from a document without duplicate identifiers, no sequence of
\* save_transaction, update_transaction and delete_transaction calls leaves two
\* stored transactions with one identifier; a successful save of t replaces the
\* record whose identifier is t.id where it stands (the count is unchanged) and
\* otherwise appends exactly one record.
C2_UniqueIdentifiers ==
    /\ [](IsLoaded(data) => NoDuplicateIds(data))
    /\ [][C2_SaveStep]_vars

\* two records are stored and the one just saved stands first: it was replaced
\* where it stood
C2_Witness ==
    /\ IsLoaded(data) /\ last.op = "save_transaction" /\ last.ret
    /\ Len(data.transactions) = 2
    /\ data.transactions[1] = TransactionToDict(last.tx)

\* what C3 lists, the length being that of the description as given
C3_ListedAsGiven(t) ==
    \/ t.amount <= 0
    \/ t.description.core = 0
    \/ TextLen(t.description) > DescMaxLen
    \/ t.transaction_type \notin TransactionTypes

\* the same, the length being that of the description without the whitespace
\* around it
C3_ListedStripped(t) ==
    \/ t.amount <= 0
    \/ t.description.core = 0
    \/ t.description.core > DescMaxLen
    \/ t.transaction_type \notin TransactionTypes

\* C3 as stated: save_transaction(t) with an empty or whitespace-only
\* description, a description longer than 200 characters, an amount <= 0 or an
\* invalid type returns false and leaves the document and the files as they were.
C3_AsStated ==
    [][(last'.op = "save_transaction" /\ C3_ListedAsGiven(last'.tx))
        => (~last'.ret /\ Untouched)]_vars

\* C3, amended: save_transaction(t) with an empty or whitespace-only
\* description, a description longer than 200 characters once the whitespace
\* around it is stripped, an amount <= 0 or an invalid type returns false and
\* leaves the in-memory document, the store file and the temporary file as
\* they were.
C3_InvalidRejected ==
    [][(last'.op = "save_transaction" /\ C3_ListedStripped(last'.tx))
        => (~last'.ret /\ Untouched)]_vars

\* a save refused for its amount, on a document that holds a transaction
C3_Witness ==
    /\ IsLoaded(data) /\ last.op = "save_transaction" /\ ~last.ret
    /\ last.tx.amount = 0
    /\ Len(data.transactions) = 2

HasDefault(d, name) ==
    \E i \in 1..Len(d.categories) :
        /\ Get(d.categories[i], "name", NoneStr) = name
        /\ Get(d.categories[i], "is_default", FALSE) = TRUE

\* C4: delete_category(name) on a stored category with is_default = true
\* returns false and leaves the in-memory document and the store file unchanged.
C4_DefaultNotDeleted ==
    [][(last'.op = "delete_category" /\ IsLoaded(data) /\ HasDefault(data, last'.name))
        => (~last'.ret /\ Untouched)]_vars

C4_Witness ==
    /\ IsLoaded(data) /\ last.op = "delete_category" /\ ~last.ret
    /\ last.name = "Food" /\ HasDefault(data, "Food")

Referenced(d, name) ==
    \E i \in 1..Len(d.transactions) : Get(d.transactions[i], "category", NoneStr) = name

\* C5: delete_category(name) returns false and leaves the document unchanged
\* whenever a stored transaction has category equal to name.
C5_InUseNotDeleted ==
    [][(last'.op = "delete_category" /\ IsLoaded(data) /\ Referenced(data, last'.name))
        => (~last'.ret /\ data' = data)]_vars

\* C6: once a category is stored with is_default = true, no save_category,
\* delete_category or initialize_storage call leaves the document without it or
\* with its is_default false.
C6_DefaultStaysDefault ==
    [][(IsLoaded(data)
        /\ last'.op \in {"save_category", "delete_category", "initialize_storage"})
        => \A i \in 1..Len(data.categories) :
              Get(data.categories[i], "is_default", FALSE) = TRUE
                => HasDefault(data', data.categories[i].name)]_vars

NamedAt(d, name) ==
    {i \in 1..Len(d.categories) : Get(d.categories[i], "name", NoneStr) = name}

First(S) == CHOOSE i \in S : \A j \in S : i <= j

C8_Step ==
    /\ (last'.op = "construct" /\ store.kind \in {"garbage", "nonobject"})
        => /\ \E b \in backups' :
                b.name.prefix = "corrupted_data" /\ b.content = store
           /\ data'.transactions = <<>> /\ data'.categories = <<>>
           /\ store'.kind = "object"
           /\ store'.obj.transactions = <<>> /\ store'.obj.categories = <<>>
    /\ (last'.op = "initialize_storage" /\ IsLoaded(data) /\ data.categories = <<>>)
        => /\ ParsedCategories(data') = DEFAULT_CATEGORIES
           /\ store' = ObjectFile(data')
    /\ (last'.op = "save_transaction" /\ TransactionIsValid(last'.tx))
        => /\ last'.ret
           /\ store' = ObjectFile(data')
           /\ \E i \in 1..Len(data'.transactions) :
                data'.transactions[i] = TransactionToDict(last'.tx)

C9_ListingComplete ==
    (IsLoaded(data) /\ last.op = "get_all_transactions")
        => \A now \in Times :
            LET r == GetAllTransactions(data, now)
                p == ParsedTransactions(data, now)
            IN  /\ Len(r) = Len(p)
                /\ \A i \in 1..Len(p) : \E j \in 1..Len(r) : r[j] = p[i]
                /\ \A i, j \in 1..Len(r) : i < j => r[i].date.t >= r[j].date.t

-----------------------------------------------------------------------------
(* utils/data_manager.py: DataMigration *)

CURRENT_VERSION == "1.0.0"

\* datetime.now().isoformat()
NowIso(now) == IsoFormat(DateTime(now, FALSE))

\* as GetDataVersion, with the stored version never read
GetDataVersion_Oldest(d) == "0.8.0"

GetDataVersion(d) == Get(d, "schema_version", "0.8.0")

NeedsMigration(d) == GetDataVersion(d) # CURRENT_VERSION

\* a Python value that "not value" takes for false: a missing key (None) or ""
Falsy(r, key) == key \notin DOMAIN r \/ r[key] = ""

MigrateTransactionFrom080(t, now) ==
    LET a == IF "created_at" \in DOMAIN t THEN t
             ELSE t @@ [created_at |-> Get(t, "date", NowIso(now))]
    IN  IF "updated_at" \in DOMAIN a THEN a
        ELSE a @@ [updated_at |-> Get(a, "date", NowIso(now))]

MigrateCategoryFrom080(c, now) ==
    LET a == IF "created_at" \in DOMAIN c THEN c
             ELSE c @@ [created_at |-> NowIso(now)]
    IN  IF "is_default" \in DOMAIN a THEN a ELSE a @@ [is_default |-> FALSE]

\* _migrate_from_0_8_0: a list that is absent stays absent
MigrateFrom080(d, now) ==
    LET a == IF "transactions" \in DOMAIN d
               THEN [d EXCEPT !.transactions =
                        [i \in 1..Len(@) |-> MigrateTransactionFrom080(@[i], now)]]
             ELSE d
    IN  IF "categories" \in DOMAIN a
          THEN [a EXCEPT !.categories =
                    [i \in 1..Len(@) |-> MigrateCategoryFrom080(@[i], now)]]
        ELSE a

\* f"tx_{now:%Y%m%d_%H%M%S}_{i}", i counted from 0
MigratedId(now, i) == "tx_" \o ToString(now) \o "_" \o ToString(i)

\* _migrate_from_0_9_0
MigrateFrom090(d, now) ==
    LET a == IF "metadata" \in DOMAIN d THEN d
             ELSE d @@ [metadata |->
                          [created_at |-> NowIso(now),
                           last_accessed |-> NowIso(now),
                           total_transactions |-> Len(Get(d, "transactions", <<>>)),
                           total_categories |-> Len(Get(d, "categories", <<>>))]]
    IN  IF "transactions" \in DOMAIN a
          THEN [a EXCEPT !.transactions =
                    [i \in 1..Len(@) |->
                        IF Falsy(@[i], "id")
                          THEN [id |-> MigratedId(now, i - 1)] @@ @[i]
                        ELSE @[i]]]
        ELSE a

\* as MigrateData, with a history entry written by each transition applied
MigrateData_EntryPerTransition(d, now) ==
    LET v == GetDataVersion(d)
        a == IF v = "0.8.0" THEN MigrateFrom080(d, now) ELSE d
        v9 == IF v = "0.8.0" THEN "0.9.0" ELSE v
        b == IF v9 = "0.9.0" THEN MigrateFrom090(a, now) ELSE a
        first == IF v = "0.8.0"
                   THEN << [from_version |-> v, to_version |-> "0.9.0",
                            migrated_at |-> NowIso(now)] >>
                 ELSE <<>>
        entry == [from_version |-> v9,
                  to_version |-> CURRENT_VERSION,
                  migrated_at |-> NowIso(now)]
    IN  IF v = CURRENT_VERSION THEN d
        ELSE [schema_version |-> CURRENT_VERSION,
              migration_history |->
                  Append(Get(b, "migration_history", <<>>) \o first, entry)]
             @@ b

\* migrate_data: the document it returns
MigrateData(d, now) ==
    LET v == GetDataVersion(d)
        a == IF v = "0.8.0" THEN MigrateFrom080(d, now) ELSE d
        v9 == IF v = "0.8.0" THEN "0.9.0" ELSE v
        b == IF v9 = "0.9.0" THEN MigrateFrom090(a, now) ELSE a
        entry == [from_version |-> v,
                  to_version |-> CURRENT_VERSION,
                  migrated_at |-> NowIso(now)]
    IN  IF v = CURRENT_VERSION THEN d
        ELSE [schema_version |-> CURRENT_VERSION,
              migration_history |-> Append(Get(b, "migration_history", <<>>), entry)]
             @@ b

\* dict.copy() is shallow: the lists of the copy are the lists of the document
\* passed in, their records are changed in place and the history is appended
\* to in place; keys added at the top go to the copy only.  This is the
\* document passed in, as the call that returned out leaves it.
Aliased(d, out) ==
    [k \in DOMAIN d |->
        IF k \in {"transactions", "categories", "migration_history"}
             /\ k \in DOMAIN out
          THEN out[k] ELSE d[k]]

-----------------------------------------------------------------------------
(* The documents given to the migration engine *)

\* a key that is present or not
Opt(key, present, val) == IF present THEN key :> val ELSE EmptyDict

MigVersions == {"0.8.0", "0.9.0", "1.0.0", "2.0.0"}

MigTransactionLists ==
    { <<>>,
      << [id |-> "t1", amount |-> DecimalStr(5), description |-> Coffee,
          type |-> "EXPENSE", category |-> "Food",
          date |-> IsoFormat(DateTime(0, FALSE)),
          created_at |-> IsoFormat(DateTime(0, FALSE)),
          updated_at |-> IsoFormat(DateTime(0, FALSE))] >>,
      << [amount |-> DecimalStr(5), description |-> Coffee,
          type |-> "EXPENSE", category |-> "Food",
          date |-> IsoFormat(DateTime(0, FALSE))],
         [id |-> "", amount |-> DecimalStr(7), description |-> Coffee,
          type |-> "INCOME", category |-> "Salary"] >> }

MigCategoryLists ==
    { << [name |-> "Food", type |-> "EXPENSE"] >>,
      << [name |-> "Food", type |-> "EXPENSE", is_default |-> TRUE,
          created_at |-> IsoFormat(DateTime(0, FALSE))] >> }

MigHistory ==
    << [from_version |-> "0.8.0", to_version |-> "0.9.0",
        migrated_at |-> IsoFormat(DateTime(0, FALSE))] >>

MigMetadata ==
    [created_at |-> IsoFormat(DateTime(0, FALSE)),
     last_accessed |-> IsoFormat(DateTime(0, FALSE)),
     total_transactions |-> 0, total_categories |-> 0]

MigDocs ==
    { Opt("schema_version", hasV, v) @@ Opt("transactions", hasT, ts)
        @@ Opt("categories", hasC, cs) @@ Opt("metadata", hasM, MigMetadata)
        @@ Opt("migration_history", hasH, MigHistory) :
        hasV \in BOOLEAN, v \in MigVersions,
        hasT \in BOOLEAN, ts \in MigTransactionLists,
        hasC \in BOOLEAN, cs \in MigCategoryLists,
        hasM \in BOOLEAN, hasH \in BOOLEAN }

\* the clock of the migration engine: a second call is made later than the first
MigTimes == 0..(MaxTime + 1)

-----------------------------------------------------------------------------
(* The migration engine, call by call *)

\* migrate_data(D) on a document read from a store
MigrateCall(now) ==
    /\ mlast = "none"
    /\ mout' = MigrateData(mdoc, now)
    /\ mdoc' = Aliased(mdoc, mout')
    /\ mlast' = "migrate_data"
    /\ UNCHANGED <<repoVars, stepVars, mgrVars>>

\* migrate_data on the document the previous migrate_data returned
MigrateAgain(now) ==
    /\ mlast \in {"migrate_data", "migrate_again"}
    /\ mout' = MigrateData(mout, now)
    /\ mdoc' = Aliased(mout, mout')
    /\ mlast' = "migrate_again"
    /\ UNCHANGED <<repoVars, stepVars, mgrVars>>

\* _migrate_from_0_8_0(D), called on its own
TransitionFrom080(now) ==
    /\ mlast = "none"
    /\ mout' = MigrateFrom080(mdoc, now)
    /\ mdoc' = Aliased(mdoc, mout')
    /\ mlast' = "_migrate_from_0_8_0"
    /\ UNCHANGED <<repoVars, stepVars, mgrVars>>

\* _migrate_from_0_9_0(D), called on its own
TransitionFrom090(now) ==
    /\ mlast = "none"
    /\ mout' = MigrateFrom090(mdoc, now)
    /\ mdoc' = Aliased(mdoc, mout')
    /\ mlast' = "_migrate_from_0_9_0"
    /\ UNCHANGED <<repoVars, stepVars, mgrVars>>

InitMig ==
    /\ mdoc \in MigDocs
    /\ mout = NoDoc
    /\ mlast = "none"
    /\ store = Absent /\ tmp = Absent /\ backups = {} /\ data = Unloaded
    /\ last = Called("none", TRUE, NoTx, NoCat, NoneStr)
    /\ IdleSteps /\ IdleManager

NextMig ==
    \/ \E now \in MigTimes : MigrateCall(now)
    \/ \E now \in MigTimes : MigrateAgain(now)
    \/ \E now \in MigTimes : TransitionFrom080(now)
    \/ \E now \in MigTimes : TransitionFrom090(now)

SpecMig == InitMig /\ [][NextMig]_vars

-----------------------------------------------------------------------------
(* Properties of the migration engine *)

SameHistory(a, b) ==
    /\ ("migration_history" \in DOMAIN a) = ("migration_history" \in DOMAIN b)
    /\ "migration_history" \in DOMAIN a => a.migration_history = b.migration_history

C10_Step ==
    /\ mlast' = "migrate_again" => mout' = mout
    /\ mlast' = "migrate_data" /\ GetDataVersion(mdoc) = CURRENT_VERSION
         => mout' = mdoc /\ SameHistory(mout', mdoc)

\* C10: migrating a document that migrate_data returned gives that document
\* back, whatever the clock says by then; a document whose schema_version is
\* 1.0.0 is returned as it is, its migration_history included
C10_MigrateIdempotent == [][C10_Step]_vars

\* a stale document that had a history was migrated, then migrated again
C10_Witness ==
    /\ mlast = "migrate_again"
    /\ "migration_history" \in DOMAIN mout
    /\ Len(mout.migration_history) = 2
    /\ mout.migration_history[2].from_version = "0.9.0"

HistoryOf(d) == Get(d, "migration_history", <<>>)

\* what migrate_data does after the transitions: the version and the one entry
Stamped(d, from, now) ==
    [schema_version |-> CURRENT_VERSION,
     migration_history |->
         Append(HistoryOf(d),
                [from_version |-> from, to_version |-> CURRENT_VERSION,
                 migrated_at |-> NowIso(now)])] @@ d

\* the run added exactly one entry, the last one, from that version to 1.0.0
OneEntryAdded(before, after, from) ==
    /\ after.schema_version = CURRENT_VERSION
    /\ Len(after.migration_history) = Len(HistoryOf(before)) + 1
    /\ SubSeq(after.migration_history, 1, Len(HistoryOf(before))) = HistoryOf(before)
    /\ after.migration_history[Len(after.migration_history)].from_version = from
    /\ after.migration_history[Len(after.migration_history)].to_version = CURRENT_VERSION

C11_Step ==
    /\ mlast' = "migrate_data" /\ "schema_version" \notin DOMAIN mdoc
         => /\ NeedsMigration(mdoc)
            /\ OneEntryAdded(mdoc, mout', "0.8.0")
            /\ \E now \in MigTimes :
                  mout' = Stamped(MigrateFrom090(MigrateFrom080(mdoc, now), now),
                                  "0.8.0", now)
    /\ mlast' = "migrate_data" /\ GetDataVersion(mdoc) = "0.9.0"
         => /\ OneEntryAdded(mdoc, mout', "0.9.0")
            /\ \E now \in MigTimes :
                  mout' = Stamped(MigrateFrom090(mdoc, now), "0.9.0", now)

\* C11: a document without schema_version needs migration and is migrated as
\* 0.8.0: the 0.8.0 transition, then the 0.9.0 transition, schema_version
\* 1.0.0 and exactly one more migration_history entry, from 0.8.0 to 1.0.0;
\* a run from 0.9.0 adds exactly one entry as well
C11_AbsentVersionIsOldest == [][C11_Step]_vars

\* a document without schema_version, holding records of the oldest shape and
\* an earlier history, has been migrated
C11_Witness ==
    /\ mlast = "migrate_data"
    /\ "schema_version" \notin DOMAIN mdoc
    /\ "transactions" \in DOMAIN mdoc /\ Len(mdoc.transactions) = 2
    /\ Len(mout.migration_history) = 2
    /\ mout.migration_history[2].from_version = "0.8.0"
    /\ "metadata" \in DOMAIN mout /\ "metadata" \notin DOMAIN mdoc

\* C12: migrate_data and the two transitions are pure: the document passed in,
\* its transaction and category records and its migration_history included,
\* is after the call what it was before
C12_InputUntouched == [][mlast = "none" /\ mlast' # "none" => mdoc' = mdoc]_vars

KnownVersions == {"0.8.0", "0.9.0", CURRENT_VERSION}

\* C27: migrate_data does not stamp schema_version 1.0.0 on a document whose
\* schema_version is none of 0.8.0, 0.9.0 and 1.0.0, to which it applies no
\* transition
C27_UnknownVersionNotRelabelled ==
    [][(mlast = "none" /\ mlast' = "migrate_data"
            /\ GetDataVersion(mdoc) \notin KnownVersions)
        => Get(mout', "schema_version", NoneStr) # CURRENT_VERSION]_vars

-----------------------------------------------------------------------------
(* utils/error_handling.py: DataIntegrityChecker; utils/data_manager.py:   *)
(* what DataPersistenceManager.save_data computes                          *)

\* a file opened for writing and not closed yet: truncated, or filled in part
Partial == [kind |-> "partial"]

\* _validate_transactions reports no error
TransactionsIntact(ts) ==
    /\ \A i \in 1..Len(ts) :
          /\ {"id", "amount", "description", "type", "category", "date"}
                \subseteq DOMAIN ts[i]
          /\ IsDecimalStr(ts[i].amount)
          /\ IsIsoString(ts[i].date)
    /\ \A i, j \in 1..Len(ts) : i < j => ts[i].id # ts[j].id

\* _validate_categories reports no error
CategoriesIntact(cs) ==
    \A i \in 1..Len(cs) : {"name", "type"} \subseteq DOMAIN cs[i]

\* validate_data_file(path)['warnings'] of a valid file is not empty: an amount
\* that is not positive, a category name held twice
HasWarnings(file) ==
    \/ \E i \in 1..Len(file.obj.transactions) :
          file.obj.transactions[i].amount.dec <= 0
    \/ \E i, j \in 1..Len(file.obj.categories) :
          i < j /\ file.obj.categories[i].name = file.obj.categories[j].name

\* validate_data_file(path)['is_valid']
ValidateDataFile(file) ==
    /\ file.kind = "object"
    /\ {"transactions", "categories"} \subseteq DOMAIN file.obj
    /\ TransactionsIntact(file.obj.transactions)
    /\ CategoriesIntact(file.obj.categories)

\* save_data, lines 341-344: the counts cached in the caller's document
UpdateMetadata(doc, now) ==
    IF "metadata" \in DOMAIN doc
      THEN [doc EXCEPT !.metadata =
                [last_modified |-> now,
                 total_transactions |-> Len(Get(doc, "transactions", <<>>)),
                 total_categories |-> Len(Get(doc, "categories", <<>>))] @@ @]
    ELSE doc

-----------------------------------------------------------------------------
(* A save, statement by statement, in a process that may stop at any one *)

RepoSteps == {"repo_open", "repo_dump", "repo_replace"}

MgrSteps ==
    {"mgr_check_open", "mgr_check_dump", "mgr_check", "mgr_backup",
     "mgr_open", "mgr_dump", "mgr_move",
     "mgr_copy_open", "mgr_copy_write", "mgr_unlink"}

\* the statements that open or write a file, or hand one to the system
MgrIOSteps ==
    {"mgr_check_open", "mgr_check_dump", "mgr_open", "mgr_dump",
     "mgr_copy_open", "mgr_copy_write"}

\* the positions ahead of the rename: Path.replace, shutil.move
BeforeRename ==
    RepoSteps \cup
    {"mgr_check_open", "mgr_check_dump", "mgr_check", "mgr_backup",
     "mgr_open", "mgr_dump", "mgr_move"}

StepCategories == {Category("Custom", "EXPENSE", FALSE)}

ManagerDocs ==
    { [transactions |->
          << [id |-> "t1", amount |-> DecimalStr(5), description |-> Coffee,
              type |-> "EXPENSE", category |-> "Food",
              date |-> IsoFormat(DateTime(0, FALSE))] >>,
       categories |-> << [name |-> "Food", type |-> "EXPENSE"] >>,
       metadata |-> [version |-> "1.0", created_at |-> 0, last_modified |-> 0]],
      [transactions |-> <<>>,
       categories |-> << CategoryToDict(Category("Custom", "EXPENSE", FALSE)) >>,
       metadata |-> [version |-> "1.0", created_at |-> 0, last_modified |-> 0]] }

\* a mutating repository call reaches _save_data: the in-memory document is
\* changed already, and line 93 stamps it before any file is opened
BeginSave(op, d, now) ==
    /\ pc = "idle" /\ IsLoaded(data)
    /\ data' = Stamp(d, now)
    /\ pend' = [op |-> op, pre |-> store, mem |-> data, doc |-> data',
                at |-> "running"]
    /\ pc' = "repo_open"
    /\ UNCHANGED <<store, tmp, backups, last, mtmp, migVars, mgrVars>>

BeginSaveCategory(c, now) ==
    /\ CategoryIsValid(c)
    /\ BeginSave("save_category", UpsertCategory(data, c), now)

\* line 100: open(temp_file, 'w')
RepoOpen ==
    /\ pc = "repo_open"
    /\ tmp' = Partial
    /\ pc' = "repo_dump"
    /\ UNCHANGED <<store, backups, data, last, pend, mtmp, migVars, mgrVars>>

\* lines 100-101: json.dump, and the file is closed
RepoDump ==
    /\ pc = "repo_dump"
    /\ tmp' = ObjectFile(pend.doc)
    /\ pc' = "repo_replace"
    /\ UNCHANGED <<store, backups, data, last, pend, mtmp, migVars, mgrVars>>

\* line 104: temp_file.replace(data_file_path), os.replace
RepoReplace ==
    /\ pc = "repo_replace"
    /\ store' = tmp
    /\ tmp' = Absent
    /\ pc' = "idle" /\ pend' = NoPend
    /\ last' = Called(pend.op, TRUE, NoTx, NoCat, NoneStr)
    /\ UNCHANGED <<backups, data, mtmp, migVars, mgrVars>>

\* lines 107-109: the statement raises IOError and the call returns False
RepoIOError ==
    /\ pc \in RepoSteps
    /\ pc' = "idle" /\ pend' = NoPend
    /\ last' = Called(pend.op, FALSE, NoTx, NoCat, NoneStr)
    /\ UNCHANGED <<store, tmp, backups, data, mtmp, migVars, mgrVars>>

\* save_data(doc, validate, backup), called by a process that has no
\* repository open; backup stands for what line 317 makes of the argument, a
\* backup manager being there
BeginSaveData(doc, validate, backup) ==
    /\ pc = "idle" /\ data = Unloaded
    /\ pend' = [op |-> "save_data", pre |-> store, doc |-> doc,
                validate |-> validate, backup |-> backup, at |-> "running"]
    /\ pc' = IF validate THEN "mgr_check_open" ELSE "mgr_backup"
    /\ UNCHANGED <<repoVars, mtmp, migVars, mgrVars>>

\* line 324: open(temp_file, 'w')
MgrCheckOpen ==
    /\ pc = "mgr_check_open"
    /\ mtmp' = Partial
    /\ pc' = "mgr_check_dump"
    /\ UNCHANGED <<repoVars, pend, migVars, mgrVars>>

\* line 325: json.dump, and the file is closed
MgrCheckDump ==
    /\ pc = "mgr_check_dump"
    /\ mtmp' = ObjectFile(pend.doc)
    /\ pc' = "mgr_check"
    /\ UNCHANGED <<repoVars, pend, migVars, mgrVars>>

\* the call ends with FileOperationError raised (lines 360-363), its message
\* made of the exception caught
Raised(caught) ==
    /\ pc' = "idle" /\ pend' = NoPend
    /\ last' = Called("save_data", FALSE, NoTx, NoCat, caught)

\* as MgrCheck, with the result of the validation not looked at
MgrCheck_NoAbort ==
    /\ pc = "mgr_check"
    /\ mtmp' = Absent
    /\ pc' = "mgr_backup" /\ UNCHANGED <<pend, last>>
    /\ UNCHANGED <<store, tmp, backups, data, migVars, mgrVars>>

\* lines 327-333: the temporary file is validated and removed
MgrCheck ==
    /\ pc = "mgr_check"
    /\ mtmp' = Absent
    /\ IF ValidateDataFile(mtmp)
         THEN pc' = "mgr_backup" /\ UNCHANGED <<pend, last>>
       ELSE Raised("DataError")
    /\ UNCHANGED <<store, tmp, backups, data, migVars, mgrVars>>

\* lines 336-344: the backup of the existing file, then the metadata;
\* create_backup returns None when the store file is missing or the copy
\* raises (error_handler, lines 192-203), and line 338 logs what it returns
MgrBackup(now, copied) ==
    /\ pc = "mgr_backup"
    /\ backups' = IF pend.backup /\ store.kind # "absent" /\ copied
                    THEN PutFile(backups, BackupName("expense_data_backup", now), store)
                    ELSE backups
    /\ pend' = [pend EXCEPT !.doc = UpdateMetadata(@, now)]
    /\ pc' = "mgr_open"
    /\ UNCHANGED <<store, tmp, data, last, mtmp, migVars, mgrVars>>

\* line 351: open(temp_file, 'w')
MgrOpen ==
    /\ pc = "mgr_open"
    /\ mtmp' = Partial
    /\ pc' = "mgr_dump"
    /\ UNCHANGED <<repoVars, pend, migVars, mgrVars>>

\* line 352: json.dump, and the file is closed
MgrDump ==
    /\ pc = "mgr_dump"
    /\ mtmp' = ObjectFile(pend.doc)
    /\ pc' = "mgr_move"
    /\ UNCHANGED <<repoVars, pend, migVars, mgrVars>>

\* line 355, shutil.move: os.rename puts the temporary file in the store's place
MgrMoveRenamed ==
    /\ pc = "mgr_move"
    /\ store' = mtmp
    /\ mtmp' = Absent
    /\ pc' = "idle" /\ pend' = NoPend
    /\ last' = Called("save_data", TRUE, NoTx, NoCat, NoneStr)
    /\ UNCHANGED <<tmp, backups, data, migVars, mgrVars>>

\* line 355, shutil.move: os.rename raises OSError, as it does on Windows for a
\* destination that exists, and shutil.move goes on to copy the file
MgrMoveRefused ==
    /\ pc = "mgr_move"
    /\ store.kind # "absent"
    /\ pc' = "mgr_copy_open"
    /\ UNCHANGED <<repoVars, pend, mtmp, migVars, mgrVars>>

\* shutil.copy2: the destination is opened for writing
MgrCopyOpen ==
    /\ pc = "mgr_copy_open"
    /\ store' = Partial
    /\ pc' = "mgr_copy_write"
    /\ UNCHANGED <<tmp, backups, data, last, pend, mtmp, migVars, mgrVars>>

\* shutil.copy2: the content is written and the destination closed
MgrCopyWrite ==
    /\ pc = "mgr_copy_write"
    /\ store' = mtmp
    /\ pc' = "mgr_unlink"
    /\ UNCHANGED <<tmp, backups, data, last, pend, mtmp, migVars, mgrVars>>

\* shutil.move: os.unlink of the temporary file, and save_data returns True
MgrUnlink ==
    /\ pc = "mgr_unlink"
    /\ mtmp' = Absent
    /\ pc' = "idle" /\ pend' = NoPend
    /\ last' = Called("save_data", TRUE, NoTx, NoCat, NoneStr)
    /\ UNCHANGED <<store, tmp, backups, data, migVars, mgrVars>>

\* a statement that opens or writes a file raises
MgrIOError ==
    /\ pc \in MgrIOSteps
    /\ Raised("IOError")
    /\ UNCHANGED <<store, tmp, backups, data, mtmp, migVars, mgrVars>>

\* the process stops where it is; what it held in memory is gone
Crash ==
    /\ pc \in RepoSteps \cup MgrSteps
    /\ pc' = "crashed"
    /\ pend' = [pend EXCEPT !.at = pc]
    /\ data' = Unloaded
    /\ last' = Called("crash", TRUE, NoTx, NoCat, NoneStr)
    /\ UNCHANGED <<store, tmp, backups, mtmp, migVars, mgrVars>>

\* a new process starts over the files the stopped one left
Restart ==
    /\ pc = "crashed"
    /\ pc' = "idle" /\ pend' = NoPend
    /\ last' = Called("none", TRUE, NoTx, NoCat, NoneStr)
    /\ UNCHANGED <<store, tmp, backups, data, mtmp, migVars, mgrVars>>

InitSave == InitRepo /\ IdleSteps /\ IdleMigration /\ IdleManager

NextSave ==
    \/ \E now \in Times : Construct(now)
    \/ \E c \in StepCategories, now \in Times : BeginSaveCategory(c, now)
    \/ RepoOpen
    \/ RepoDump
    \/ RepoReplace
    \/ RepoIOError
    \/ \E doc \in ManagerDocs, v, b \in BOOLEAN : BeginSaveData(doc, v, b)
    \/ MgrCheckOpen
    \/ MgrCheckDump
    \/ MgrCheck
    \/ \E now \in Times, copied \in BOOLEAN : MgrBackup(now, copied)
    \/ MgrOpen
    \/ MgrDump
    \/ MgrMoveRenamed
    \/ MgrMoveRefused
    \/ MgrCopyOpen
    \/ MgrCopyWrite
    \/ MgrUnlink
    \/ MgrIOError
    \/ Crash
    \/ Restart

SpecSave == InitSave /\ [][NextSave]_vars

-----------------------------------------------------------------------------
(* Properties of a save *)

\* where the call in progress is, or was when the process stopped
Position == IF pc = "crashed" THEN pend.at ELSE pc

\* up to the rename, a stop included, the store file is what it was at the call
C1_IntactBeforeRename ==
    pc # "idle" /\ Position \in BeforeRename => store = pend.pre

\* whoever reads the store file during a call, or after a stop in it, reads
\* the document of before the call or the one the call writes
C1_ReaderSeesWhole ==
    pc # "idle" => store \in {pend.pre, ObjectFile(pend.doc)}

\* C1: for Repository._save_data and DataPersistenceManager.save_data, a crash
\* before the rename leaves the store file as it was before the call, and a
\* concurrent reader sees the complete old document or the complete new one
C1_AtomicSave == C1_IntactBeforeRename /\ C1_ReaderSeesWhole

\* C24: a mutating repository call that returns false leaves the in-memory
\* document as it was before the call, a failed write of the file included, and
\* when a call returns the in-memory transactions and categories are those of
\* the store file
C24_MemoryFollowsFile ==
    [][(pc' = "idle" /\ pc \in RepoSteps) =>
          (/\ ~last'.ret => data' = pend.mem
           /\ store'.kind = "object" =>
                 (/\ data'.transactions = store'.obj.transactions
                  /\ data'.categories = store'.obj.categories))]_vars

\* a call of save_data that validates a document with a hard error
RejectedSave ==
    /\ pc \in MgrSteps
    /\ pend.validate
    /\ ~ValidateDataFile(ObjectFile(pend.doc))

C18_BackupHoldsPreSave ==
    [][/\ pc \in MgrSteps /\ pc' = "idle" /\ last'.ret
       /\ pend.backup /\ pend.pre.kind # "absent"
       => \E f \in backups' : f.content = pend.pre]_vars

-----------------------------------------------------------------------------
(* utils/data_manager.py: DataInitializer; utils/error_handling.py:        *)
(* BackupManager; DataPersistenceManager.load_data, each call whole        *)

INITIAL_CATEGORIES ==
    << <<"Food & Dining", "EXPENSE">>, <<"Transportation", "EXPENSE">>,
       <<"Shopping", "EXPENSE">>, <<"Entertainment", "EXPENSE">>,
       <<"Bills & Utilities", "EXPENSE">>, <<"Healthcare", "EXPENSE">>,
       <<"Education", "EXPENSE">>, <<"Travel", "EXPENSE">>,
       <<"Personal Care", "EXPENSE">>, <<"Other Expenses", "EXPENSE">>,
       <<"Salary", "INCOME">>, <<"Freelance", "INCOME">>,
       <<"Investment", "INCOME">>, <<"Gift", "INCOME">>,
       <<"Other Income", "INCOME">> >>

\* DataInitializer.create_initial_data
CreateInitialData(now) ==
    [schema_version |-> CURRENT_VERSION,
     transactions |-> <<>>,
     categories |->
        [i \in 1..Len(INITIAL_CATEGORIES) |->
            [name |-> INITIAL_CATEGORIES[i][1], type |-> INITIAL_CATEGORIES[i][2],
             is_default |-> TRUE, created_at |-> NowIso(now)]],
     metadata |->
        [created_at |-> NowIso(now), last_accessed |-> NowIso(now),
         total_transactions |-> 0,
         total_categories |-> Len(INITIAL_CATEGORIES),
         application_version |-> "1.0.0"],
     settings |->
        [currency |-> "USD", date_format |-> "YYYY-MM-DD", decimal_places |-> 2,
         auto_backup |-> TRUE, backup_frequency |-> "daily"],
     migration_history |-> <<>>]

\* ensure_data_file_exists: a missing file is written by initialize_data_file
EnsureDataFile(file, now) ==
    IF file.kind = "absent" THEN ObjectFile(CreateInitialData(now)) ELSE file

\* a backup name given by the caller: no timestamp in it
FixedName(n) == [prefix |-> n, ts |-> -1]

\* create_backup(name) behind @error_handler, which returns None for whatever
\* the body raises: the backup directory after the call.  copied says whether
\* the file system accepts shutil.copy2.
CreateBackup(dir, file, name, copied) ==
    IF file.kind # "absent" /\ copied THEN PutFile(dir, name, file) ELSE dir

\* load_data, lines 288-290: the access time, in the returned document only
Accessed(doc, now) ==
    IF "metadata" \in DOMAIN doc
      THEN [doc EXCEPT !.metadata = [last_accessed |-> NowIso(now)] @@ @]
    ELSE doc

\* how a call of the persistence manager or the backup manager ended
Ended(op, ret, details, doc, migrated) ==
    [op |-> op, ret |-> ret, details |-> details, doc |-> doc, migrated |-> migrated]

\* as SaveDataResult, with the store file left as it was
SaveDataResult_StoreKept(file, dir, doc, validate, backup, now, copied) ==
    IF validate /\ ~ValidateDataFile(ObjectFile(doc))
      THEN [store |-> file, backups |-> dir, doc |-> doc,
            res |-> Ended("save_data", "FileOperationError", "none", doc, FALSE)]
    ELSE LET b == IF backup
                    THEN CreateBackup(dir, file, BackupName("expense_data_backup", now),
                                      copied)
                  ELSE dir
             saved == UpdateMetadata(doc, now)
         IN  [store |-> file, backups |-> b, doc |-> saved,
              res |-> Ended("save_data", "True", "none", saved, FALSE)]

\* save_data(doc, validate, backup) with the file system accepting the write
\* of the temporary file and the move: the store file and the backup directory
\* it leaves, the caller's document as it leaves it, and how it ends.  backup
\* stands for what line 317 makes of the argument, a backup manager being
\* there; copied says whether the file system accepts the backup's copy.
SaveDataResult(file, dir, doc, validate, backup, now, copied) ==
    IF validate /\ ~ValidateDataFile(ObjectFile(doc))
      THEN [store |-> file, backups |-> dir, doc |-> doc,
            res |-> Ended("save_data", "FileOperationError", "none", doc, FALSE)]
    ELSE LET b == IF backup
                    THEN CreateBackup(dir, file, BackupName("expense_data_backup", now),
                                      copied)
                  ELSE dir
             saved == UpdateMetadata(doc, now)
         IN  [store |-> ObjectFile(saved), backups |-> b, doc |-> saved,
              res |-> Ended("save_data", "True", "none", saved, FALSE)]

\* load_data(validate, migrate) of a manager made with backup_enabled = enabled:
\* the store file and the backup directory it leaves, and how it ends.
\* copied1 and copied2 say whether the file system accepts the copy of the
\* pre-migration backup and of the backup save_data takes.
LoadDataResult(file, dir, validate, migrate, enabled, now, copied1, copied2) ==
    LET f == EnsureDataFile(file, now)
        stay(ret) == [store |-> f, backups |-> dir,
                      res |-> Ended("load_data", ret, "none", NoDoc, FALSE)]
    IN  IF f.kind # "object" THEN stay("DataError")
        ELSE IF validate /\ ~ValidateDataFile(f) THEN stay("FileOperationError")
        ELSE IF migrate /\ NeedsMigration(f.obj)
          THEN LET b1 == IF enabled
                           THEN CreateBackup(dir, f, FixedName("pre_migration_backup"),
                                             copied1)
                         ELSE dir
                   s == SaveDataResult(f, b1, MigrateData(f.obj, now), FALSE, enabled,
                                       now, copied2)
               IN  [store |-> s.store, backups |-> s.backups,
                    res |-> Ended("load_data", "returned", "none",
                                  Accessed(s.doc, now), TRUE)]
        ELSE [store |-> f, backups |-> dir,
              res |-> Ended("load_data", "returned", "none",
                            Accessed(f.obj, now), FALSE)]

LoadDataCall(validate, migrate, enabled, now, copied1, copied2) ==
    LET r == LoadDataResult(store, backups, validate, migrate, enabled, now,
                            copied1, copied2)
    IN  /\ store' = r.store
        /\ backups' = r.backups
        /\ mres' = r.res @@ [validate |-> validate, migrate |-> migrate,
                             enabled |-> enabled]
        /\ UNCHANGED <<tmp, data, last, stepVars, migVars>>

SaveDataCall(doc, validate, backup, now, copied) ==
    LET r == SaveDataResult(store, backups, doc, validate, backup, now, copied)
    IN  /\ store' = r.store
        /\ backups' = r.backups
        /\ mres' = r.res @@ [validate |-> validate, backup |-> backup]
        /\ UNCHANGED <<tmp, data, last, stepVars, migVars>>

\* the content of the file of that name in the directory
FileAt(dir, name) ==
    IF \E f \in dir : f.name = name
      THEN (CHOOSE f \in dir : f.name = name).content
    ELSE Absent

\* create_backup(name) called on its own
CreateBackupCall(name, copied) ==
    /\ backups' = CreateBackup(backups, store, name, copied)
    /\ mres' = Ended("create_backup",
                     IF store.kind # "absent" /\ copied THEN "path" ELSE "None",
                     "none", NoDoc, FALSE)
                @@ [name |-> name]
    /\ UNCHANGED <<store, tmp, data, last, stepVars, migVars>>

\* restore_backup(path) behind @error_handler, path being that name in the
\* backup directory: the store file and the directory it leaves, and what it
\* returns.  copied1 and copied2 say whether the file system accepts the copy
\* of the current file and the copy over the store file.
RestoreBackupResult(file, dir, name, copied1, copied2) ==
    IF FileAt(dir, name).kind = "absent"
      THEN [store |-> file, backups |-> dir, ret |-> "None"]
    ELSE LET b == CreateBackup(dir, file, FixedName("pre_restore_backup"), copied1)
         IN  IF copied2
               THEN [store |-> FileAt(b, name), backups |-> b, ret |-> "True"]
             ELSE [store |-> file, backups |-> b, ret |-> "None"]

RestoreBackupCall(name, copied1, copied2) ==
    LET r == RestoreBackupResult(store, backups, name, copied1, copied2)
    IN  /\ store' = r.store
        /\ backups' = r.backups
        /\ mres' = Ended("restore_backup", r.ret, "none", NoDoc, FALSE)
                   @@ [path |-> name]
        /\ UNCHANGED <<tmp, data, last, stepVars, migVars>>

-----------------------------------------------------------------------------
(* The persistence manager and the backup manager, call by call *)

CompleteTransaction ==
    [id |-> "1", amount |-> DecimalStr(100), description |-> Coffee,
     type |-> "EXPENSE", category |-> "Food",
     date |-> IsoFormat(DateTime(0, FALSE))]

FoodCategory == [name |-> "Food", type |-> "EXPENSE"]

CurrentDoc ==
    [schema_version |-> CURRENT_VERSION,
     transactions |-> << CompleteTransaction >>,
     categories |-> << FoodCategory >>,
     metadata |-> [created_at |-> NowIso(0), last_accessed |-> NowIso(0),
                   total_transactions |-> 1, total_categories |-> 1],
     migration_history |-> <<>>]

\* a category without its type: a hard error of the integrity checker
HardErrorDoc ==
    [schema_version |-> CURRENT_VERSION,
     transactions |-> <<>>,
     categories |-> << [name |-> "Food"] >>]

\* a negative amount and a category name held twice: warnings, no error
WarningDoc ==
    [schema_version |-> CURRENT_VERSION,
     transactions |-> << [CompleteTransaction EXCEPT !.amount = DecimalStr(-5)] >>,
     categories |-> << FoodCategory, FoodCategory >>]

\* version 0.8.0, its records holding every field the integrity checker asks for
Old080Doc ==
    [schema_version |-> "0.8.0",
     transactions |-> << CompleteTransaction >>,
     categories |-> << FoodCategory >>]

\* version 0.8.0, its transaction holding id, amount and date only
OldSchemaDoc ==
    [schema_version |-> "0.8.0",
     transactions |-> << [id |-> "1", amount |-> DecimalStr(100),
                          date |-> IsoFormat(DateTime(0, FALSE))] >>,
     categories |-> << FoodCategory >>]

Old090Doc ==
    [schema_version |-> "0.9.0",
     transactions |-> << CompleteTransaction >>,
     categories |-> << FoodCategory >>,
     migration_history |-> MigHistory]

UnversionedDoc ==
    [transactions |-> <<>>, categories |-> << FoodCategory >>]

ManagerStores ==
    {Absent, Garbage} \cup
    {ObjectFile(d) : d \in {CurrentDoc, HardErrorDoc, WarningDoc, Old080Doc,
                            OldSchemaDoc, Old090Doc, UnversionedDoc}}

SavedDocs == {CurrentDoc}

BackupNames(now) ==
    {BackupName("expense_data_backup", now), FixedName("manual.json")}

RestorePaths ==
    {FixedName("manual.json"), FixedName("pre_restore_backup"),
     FixedName("missing.json")}

InitManager ==
    /\ store \in ManagerStores
    /\ tmp = Absent /\ backups = {} /\ data = Unloaded
    /\ last = Called("none", TRUE, NoTx, NoCat, NoneStr)
    /\ IdleSteps /\ IdleMigration /\ IdleManager

NextManager ==
    \/ \E v, m, en, c1, c2 \in BOOLEAN, now \in Times :
          LoadDataCall(v, m, en, now, c1, c2)
    \/ \E doc \in SavedDocs, v, b, c \in BOOLEAN, now \in Times :
          SaveDataCall(doc, v, b, now, c)
    \/ \E now \in Times, c \in BOOLEAN :
          \E n \in BackupNames(now) : CreateBackupCall(n, c)
    \/ \E p \in RestorePaths, c1, c2 \in BOOLEAN : RestoreBackupCall(p, c1, c2)

SpecManager == InitManager /\ [][NextManager]_vars

-----------------------------------------------------------------------------
(* Properties of the persistence manager's load *)

\* the step is a load_data(validate = TRUE) of a store file that parses
ValidatingLoad ==
    mres'.op = "load_data" /\ mres'.validate /\ store.kind = "object"

\* C13: load_data(validate = TRUE) of a parseable store file with a hard error
\* raises DataError carrying the validation result and leaves the store file
\* as it is; with warnings only, the load is not aborted
C13_HardErrorAborts ==
    [][ValidatingLoad =>
         /\ ~ValidateDataFile(store) =>
               /\ mres'.ret = "DataError"
               /\ mres'.details = "validation"
               /\ store' = store
         /\ ValidateDataFile(store) /\ HasWarnings(store) =>
               mres'.ret = "returned"]_vars

\* the step is a load_data that migrated and returned
MigratingLoad ==
    mres'.op = "load_data" /\ mres'.ret = "returned" /\ mres'.migrated

\* C14: when load_data returns a document it has migrated, the store file holds
\* schema_version 1.0.0 and the migration_history of the returned document
C14_DiskNotBehind ==
    [][MigratingLoad =>
         /\ store'.kind = "object"
         /\ GetDataVersion(store'.obj) = CURRENT_VERSION
         /\ GetDataVersion(mres'.doc) = CURRENT_VERSION
         /\ "migration_history" \in DOMAIN store'.obj
         /\ store'.obj.migration_history = mres'.doc.migration_history]_vars

\* a 0.9.0 file that had a history has been loaded and migrated
C14_Witness ==
    /\ mres.op = "load_data" /\ mres.ret = "returned" /\ mres.migrated
    /\ Len(mres.doc.migration_history) = 2
    /\ mres.doc.migration_history[2].from_version = "0.9.0"
    /\ store.obj.migration_history = mres.doc.migration_history

\* C15: with backups enabled, load_data does not replace the store file by the
\* migrated document unless a backup holding the file's content of before the
\* migration has been made
C15_BackupBeforeMigration ==
    [][MigratingLoad /\ mres'.enabled =>
         \E f \in backups' : f.content = store]_vars

\* C16: load_data(migrate = TRUE), validating, of a parseable store file at
\* 0.8.0 or 0.9.0 returns a document at 1.0.0 with migration_history and
\* metadata, whichever fields its records hold
C16_OldFileLoads ==
    [][ValidatingLoad /\ mres'.migrate
          /\ GetDataVersion(store.obj) \in {"0.8.0", "0.9.0"}
        => /\ mres'.ret = "returned"
           /\ GetDataVersion(mres'.doc) = CURRENT_VERSION
           /\ {"migration_history", "metadata"} \subseteq DOMAIN mres'.doc]_vars

-----------------------------------------------------------------------------
(* Properties of the backup manager *)

NothingChanged == store' = store /\ backups' = backups

\* C19: create_backup called while the store file is missing, and
\* restore_backup called with a path that is missing, raise
\* FileOperationError and leave the store file and the backup directory as
\* they were
C19_MissingFileRaises ==
    [][/\ mres'.op = "create_backup" /\ store.kind = "absent"
          => mres'.ret = "FileOperationError" /\ NothingChanged
       /\ mres'.op = "restore_backup" /\ FileAt(backups, mres'.path).kind = "absent"
          => mres'.ret = "FileOperationError" /\ NothingChanged]_vars

PreRestore == FixedName("pre_restore_backup")

\* C20: after restore_backup(p) returns true, the store file holds what p
\* held before the call; when a store file existed, the backup directory
\* holds a copy of what it held, and restoring from that copy brings the
\* store file back to it
C20_RestoreReversible ==
    [][mres'.op = "restore_backup" /\ mres'.ret = "True" =>
          /\ store' = FileAt(backups, mres'.path)
          /\ store.kind # "absent" =>
                /\ FileAt(backups', PreRestore) = store
                /\ RestoreBackupResult(store', backups', PreRestore, TRUE, TRUE).store
                      = store]_vars

\* C28: a successful create_backup() without a name adds a file to the
\* backup directory and leaves every file the directory held as it was, also
\* when an earlier call fell within the same second
C28_AutoBackupNeverOverwrites ==
    [][(mres'.op = "create_backup" /\ mres'.ret = "path" /\ mres'.name.ts >= 0)
        => (/\ backups \subseteq backups'
            /\ Cardinality(backups') = Cardinality(backups) + 1)]_vars

-----------------------------------------------------------------------------
(* utils/error_handling.py: DataIntegrityChecker.validate_data_file, with  *)
(* the lists of errors and warnings it returns                             *)

\* a JSON value that is no object, where a record is expected
NotADict == [nondict |-> TRUE]
IsDict(v) == "nondict" \notin DOMAIN v

\* lines 353-358
NoResults == [is_valid |-> TRUE, errors |-> <<>>, warnings |-> <<>>]

\* a message: what is reported, of which element (0: of the file), about
\* which key
Message(msg, at, key) == [msg |-> msg, at |-> at, key |-> key]

\* results['errors'].append(...) and results['is_valid'] = False
AddError(r, m) == [r EXCEPT !.errors = Append(@, m), !.is_valid = FALSE]

\* as AddWarning, with the file declared invalid as well
AddWarning_Invalidates(r, m) ==
    [r EXCEPT !.warnings = Append(@, m), !.is_valid = FALSE]

\* results['warnings'].append(...)
AddWarning(r, m) == [r EXCEPT !.warnings = Append(@, m)]

RECURSIVE RequiredKeys(_, _, _)
\* _validate_data_structure, lines 397-403, for documents whose values under
\* these keys are lists
RequiredKeys(r, d, keys) ==
    IF keys = <<>> THEN r
    ELSE RequiredKeys(IF Head(keys) \in DOMAIN d THEN r
                      ELSE AddError(r, Message("Missing required key", 0, Head(keys))),
                      d, Tail(keys))

RECURSIVE RequiredFields(_, _, _, _, _)
\* lines 418-422 and 460-464: one error for each required field missing
RequiredFields(r, rec, fields, msg, i) ==
    IF fields = <<>> THEN r
    ELSE RequiredFields(IF Head(fields) \in DOMAIN rec THEN r
                        ELSE AddError(r, Message(msg, i, Head(fields))),
                        rec, Tail(fields), msg, i)

\* lines 424-430: the identifier is held already, or is added to the set
CheckDuplicateId(r, t, ids, i) ==
    IF "id" \in DOMAIN t /\ t.id \in ids
      THEN AddError(r, Message("Duplicate transaction ID", i, "id"))
    ELSE r

\* lines 432-440: float(amount)
CheckAmount(r, t, i) ==
    IF "amount" \notin DOMAIN t THEN r
    ELSE IF ~IsDecimalStr(t.amount)
      THEN AddError(r, Message("invalid amount", i, "amount"))
    ELSE IF t.amount.dec <= 0
      THEN AddWarning(r, Message("non-positive amount", i, "amount"))
    ELSE r

\* lines 442-448: datetime.fromisoformat(date)
CheckDate(r, t, i) ==
    IF "date" \in DOMAIN t /\ ~IsIsoString(t.date)
      THEN AddError(r, Message("invalid date format", i, "date"))
    ELSE r

RECURSIVE CheckTransactions(_, _, _, _)
\* _validate_transactions, lines 406-448, from the i-th element on
CheckTransactions(r, ts, ids, i) ==
    IF i > Len(ts) THEN r
    ELSE IF ~IsDict(ts[i])
      THEN CheckTransactions(
              AddError(r, Message("Transaction is not a dictionary", i, "")),
              ts, ids, i + 1)
    ELSE LET t == ts[i]
             r1 == RequiredFields(r, t,
                       <<"id", "amount", "description", "type", "category", "date">>,
                       "Transaction missing field", i)
             r2 == CheckDuplicateId(r1, t, ids, i)
             r3 == CheckAmount(r2, t, i)
             r4 == CheckDate(r3, t, i)
         IN  CheckTransactions(r4, ts,
                 IF "id" \in DOMAIN t THEN ids \cup {t.id} ELSE ids, i + 1)

RECURSIVE CheckCategories(_, _, _, _)
\* _validate_categories, lines 450-471, from the i-th element on
CheckCategories(r, cs, names, i) ==
    IF i > Len(cs) THEN r
    ELSE IF ~IsDict(cs[i])
      THEN CheckCategories(
              AddError(r, Message("Category is not a dictionary", i, "")),
              cs, names, i + 1)
    ELSE LET c == cs[i]
             r1 == RequiredFields(r, c, <<"name", "type">>,
                                  "Category missing field", i)
             r2 == IF "name" \in DOMAIN c /\ c.name \in names
                     THEN AddWarning(r1, Message("Duplicate category name", i, "name"))
                   ELSE r1
         IN  CheckCategories(r2, cs,
                 IF "name" \in DOMAIN c THEN names \cup {c.name} ELSE names, i + 1)

\* validate_data_file(path), lines 341-393: is_valid, errors and warnings of
\* the result.  A JSON value that is no object ends in the except clauses or
\* lacks both keys: one error at least.
ValidationResults(file) ==
    IF file.kind = "absent"
      THEN AddError(NoResults, Message("Data file not found", 0, ""))
    ELSE IF file.kind \in {"garbage", "partial"}
      THEN AddError(NoResults, Message("Invalid JSON format", 0, ""))
    ELSE IF file.kind = "nonobject"
      THEN AddError(NoResults, Message("Validation error", 0, ""))
    ELSE LET d == file.obj
             r1 == RequiredKeys(NoResults, d, <<"transactions", "categories">>)
             r2 == IF "transactions" \in DOMAIN d
                     THEN CheckTransactions(r1, d.transactions, {}, 1) ELSE r1
         IN  IF "categories" \in DOMAIN d
               THEN CheckCategories(r2, d.categories, {}, 1) ELSE r2

\* the records the checked files are made of
CheckedTransactions ==
    LET whole == [id |-> "t1", amount |-> DecimalStr(5), description |-> Coffee,
                  type |-> "EXPENSE", category |-> "Food",
                  date |-> IsoFormat(DateTime(0, FALSE))]
    IN  { whole,
          [whole EXCEPT !.id = "t2"],
          [whole EXCEPT !.amount = DecimalStr(0)],
          [whole EXCEPT !.amount = [text |-> "abc"]],
          [whole EXCEPT !.date = [text |-> "yesterday"]],
          [k \in DOMAIN whole \ {"description"} |-> whole[k]],
          NotADict }

CheckedCategories ==
    { [name |-> "Food", type |-> "EXPENSE"], [name |-> "Food"], NotADict }

MaxChecked == 2

UpTo(S, n) == UNION {[1..k -> S] : k \in 0..n}

CheckedFiles ==
    {Absent, Garbage, NonObject}
    \cup {ObjectFile([transactions |-> ts, categories |-> cs]) :
             ts \in UpTo(CheckedTransactions, MaxChecked),
             cs \in UpTo(CheckedCategories, MaxChecked)}
    \cup {ObjectFile([transactions |-> ts]) : ts \in UpTo(CheckedTransactions, 1)}
    \cup {ObjectFile([categories |-> cs]) : cs \in UpTo(CheckedCategories, 1)}

\* validate_data_file(data_file_path) called on the store file
ValidateCall ==
    /\ mres' = [op |-> "validate_data_file"] @@ ValidationResults(store)
    /\ UNCHANGED <<repoVars, stepVars, migVars>>

InitValidate ==
    /\ store \in CheckedFiles
    /\ tmp = Absent /\ backups = {} /\ data = Unloaded
    /\ last = Called("none", TRUE, NoTx, NoCat, NoneStr)
    /\ IdleSteps /\ IdleMigration /\ IdleManager

NextValidate == ValidateCall

SpecValidate == InitValidate /\ [][NextValidate]_vars

\* the file is an object with both lists
Checkable(file) ==
    /\ file.kind = "object"
    /\ {"transactions", "categories"} \subseteq DOMAIN file.obj

Reported(list, msg) == \E k \in 1..Len(list) : list[k].msg = msg

ReportedAt(list, msg, i) ==
    \E k \in 1..Len(list) : list[k].msg = msg /\ list[k].at = i

\* the i-th transaction is a record with one of the four faults
MissesField(ts, i) ==
    IsDict(ts[i]) /\
    ~({"id", "amount", "description", "type", "category", "date"} \subseteq DOMAIN ts[i])
BadAmount(ts, i) ==
    IsDict(ts[i]) /\ "amount" \in DOMAIN ts[i] /\ ~IsDecimalStr(ts[i].amount)
BadDate(ts, i) ==
    IsDict(ts[i]) /\ "date" \in DOMAIN ts[i] /\ ~IsIsoString(ts[i].date)
RepeatsId(ts, i) ==
    /\ IsDict(ts[i]) /\ "id" \in DOMAIN ts[i]
    /\ \E j \in 1..(i - 1) :
          IsDict(ts[j]) /\ "id" \in DOMAIN ts[j] /\ ts[j].id = ts[i].id
NotPositive(ts, i) ==
    /\ IsDict(ts[i]) /\ "amount" \in DOMAIN ts[i]
    /\ IsDecimalStr(ts[i].amount) /\ ts[i].amount.dec <= 0
RepeatsName(cs, i) ==
    /\ IsDict(cs[i]) /\ "name" \in DOMAIN cs[i]
    /\ \E j \in 1..(i - 1) :
          IsDict(cs[j]) /\ "name" \in DOMAIN cs[j] /\ cs[j].name = cs[i].name

\* no element of the file has a fault that is an error
Faultless(file) ==
    /\ Checkable(file)
    /\ \A i \in 1..Len(file.obj.transactions) :
          /\ IsDict(file.obj.transactions[i])
          /\ ~MissesField(file.obj.transactions, i)
          /\ ~BadAmount(file.obj.transactions, i)
          /\ ~BadDate(file.obj.transactions, i)
          /\ ~RepeatsId(file.obj.transactions, i)
    /\ \A i \in 1..Len(file.obj.categories) :
          /\ IsDict(file.obj.categories[i])
          /\ {"name", "type"} \subseteq DOMAIN file.obj.categories[i]

\* C22: in every result of validate_data_file, is_valid is false exactly when
\* errors is not empty; a missing required field, an unparsable amount, an
\* unparsable date and a repeated transaction identifier are each among the
\* errors; an amount that is not positive and a repeated category name are
\* each among the warnings, and a file with no other fault is valid
C22_ErrorsDecideValidity ==
    mres.op = "validate_data_file" =>
        /\ ~mres.is_valid <=> mres.errors # <<>>
        /\ Checkable(store) =>
              /\ \A i \in 1..Len(store.obj.transactions) :
                    /\ MissesField(store.obj.transactions, i)
                          => ReportedAt(mres.errors, "Transaction missing field", i)
                    /\ BadAmount(store.obj.transactions, i)
                          => ReportedAt(mres.errors, "invalid amount", i)
                    /\ BadDate(store.obj.transactions, i)
                          => ReportedAt(mres.errors, "invalid date format", i)
                    /\ RepeatsId(store.obj.transactions, i)
                          => ReportedAt(mres.errors, "Duplicate transaction ID", i)
                    /\ NotPositive(store.obj.transactions, i)
                          <=> ReportedAt(mres.warnings, "non-positive amount", i)
              /\ \A i \in 1..Len(store.obj.categories) :
                    RepeatsName(store.obj.categories, i)
                       <=> ReportedAt(mres.warnings, "Duplicate category name", i)
              /\ ~Reported(mres.errors, "non-positive amount")
              /\ ~Reported(mres.errors, "Duplicate category name")
        /\ Faultless(store) => mres.is_valid

\* a file whose only faults are an amount of zero and a category name held
\* twice has been validated
C22_Witness ==
    /\ mres.op = "validate_data_file"
    /\ Faultless(store)
    /\ \E i \in 1..Len(store.obj.transactions) : NotPositive(store.obj.transactions, i)
    /\ \E i \in 1..Len(store.obj.categories) : RepeatsName(store.obj.categories, i)
    /\ mres.is_valid /\ Len(mres.warnings) = 2

-----------------------------------------------------------------------------
(* services/category_service.py: CategoryService.delete_category over a    *)
(* JSONRepository                                                          *)

\* JSONRepository.get_category: the first record of that name, parsed; None
\* when there is none or when Category.from_dict raises
GetCategory(d, name) ==
    LET i == FirstIndex(d.categories, "name", name, 1)
    IN  IF i = 0 \/ ~CategoryParses(d.categories[i]) THEN NoCat
        ELSE CategoryFromDict(d.categories[i])

\* _is_category_in_use: get_all_transactions returns Transaction objects, the
\* first transaction_data.get raises AttributeError, and the except clause
\* answers True; with no transaction listed the loop body is not entered
IsCategoryInUse(d, name, now) == Len(GetAllTransactions(d, now)) > 0

\* CategoryService.delete_category(category_name)
ServiceDeleteCategory(name, now) ==
    /\ pc = "idle" /\ IsLoaded(data)
    /\ LET c == GetCategory(data, name)
           refused == \/ c = NoCat
                      \/ c.is_default
                      \/ IsCategoryInUse(data, name, now)
                      \/ IsDefaultStored(data, name)
                      \/ Len(RemoveCategory(data, name).categories)
                            = Len(data.categories)
       IN  IF refused
             THEN /\ UNCHANGED <<store, tmp, data>>
                  /\ last' = Called("service_delete_category", FALSE, NoTx, NoCat, name)
           ELSE /\ Saved(RemoveCategory(data, name), now)
                /\ last' = Called("service_delete_category", TRUE, NoTx, NoCat, name)
    /\ UNCHANGED <<backups, stepVars, migVars, mgrVars>>

NextService ==
    \/ \E now \in Times : Construct(now)
    \/ \E t \in ValidTxInputs, now \in Times : SaveTransaction(t, now)
    \/ \E c \in CatInputs, now \in Times : SaveCategory(c, now)
    \/ \E n \in UsedCategories, now \in Times : ServiceDeleteCategory(n, now)

SpecService == Init /\ [][NextService]_vars

\* the document holds a category of that name, none of the records of that
\* name is a default, and no stored transaction has it as its category
Deletable(d, name) ==
    /\ GetCategory(d, name) # NoCat
    /\ ~GetCategory(d, name).is_default
    /\ ~IsDefaultStored(d, name)
    /\ ~Referenced(d, name)

\* C23: CategoryService.delete_category(name) returns true and removes the
\* category whenever it exists, is no default and no stored transaction
\* refers to it, whatever other transactions are stored
C23_UnusedCategoryDeleted ==
    [][(last'.op = "service_delete_category" /\ IsLoaded(data)
            /\ Deletable(data, last'.name))
        => (last'.ret /\ last'.name \notin StoredNames(data'))]_vars

-----------------------------------------------------------------------------
(* The repository's files before the integrity checker, and the            *)
(* initializer's file before the repository                                *)

\* C25: after a successful save_transaction or save_category, the store file
\* the repository wrote is valid for validate_data_file
C25_WrittenFileValidates ==
    (last.op \in {"save_transaction", "save_category"} /\ last.ret)
        => ValidationResults(store).is_valid

\* ensure_data_file_exists() of a persistence manager over the store file
EnsureDataFileCall(now) ==
    /\ pc = "idle"
    /\ store' = EnsureDataFile(store, now)
    /\ mres' = Ended("ensure_data_file_exists", "True", "none", NoDoc, FALSE)
    /\ UNCHANGED <<tmp, backups, data, last, stepVars, migVars>>

InitSeed ==
    /\ store = Absent
    /\ tmp = Absent /\ backups = {} /\ data = Unloaded
    /\ last = Called("none", TRUE, NoTx, NoCat, NoneStr)
    /\ IdleSteps /\ IdleMigration /\ IdleManager

NextSeed ==
    \/ \E now \in Times : EnsureDataFileCall(now)
    \/ \E now \in Times : Construct(now)
    \/ \E now \in Times : InitializeStorage(now)
    \/ \E c \in CatInputs, now \in Times : SaveCategory(c, now)
    \/ ListCategories

SpecSeed == InitSeed /\ [][NextSeed]_vars

\* the categories create_initial_data seeds, at some time of the model
SeededCategories ==
    UNION {{CreateInitialData(now).categories[i] :
               i \in 1..Len(INITIAL_CATEGORIES)} : now \in Times}

\* C26: every category the initializer seeded, held by a repository opened
\* over the file, is among what get_all_categories returns and is returned by
\* get_category(name) with is_default true
C26_SeededCategoriesReadable ==
    IsLoaded(data) =>
        \A i \in 1..Len(data.categories) :
            data.categories[i] \in SeededCategories =>
                /\ \E k \in 1..Len(GetAllCategories(data)) :
                      GetAllCategories(data)[k].name = data.categories[i].name
                /\ GetCategory(data, data.categories[i].name) # NoCat
                /\ GetCategory(data, data.categories[i].name).is_default

-----------------------------------------------------------------------------
(* utils/error_handling.py: BackupManager.list_backups and                 *)
(* cleanup_old_backups.  Here a file of the backup directory is            *)
(* [name, content, created], created being its st_ctime.                   *)

\* the names of the model, other than the auto-made ones, that end in .json
DotJsonNames == {"manual.json", "missing.json"}

\* filename.endswith('.json'); an auto-made name is
\* expense_data_backup_<timestamp>.json
EndsWithJson(name) == name.ts >= 0 \/ name.prefix \in DotJsonNames

\* list_backups, lines 287-289: the files the listing holds
ListedFiles(dir) == {f \in dir : EndsWithJson(f.name)}

\* as NewestFirst, for a sort without reverse=True
NewestFirst_OldestFirst(listing) ==
    \A i, j \in 1..Len(listing) : i < j => listing[i].created <= listing[j].created

\* line 300: sorted on 'created', newest first
NewestFirst(listing) ==
    \A i, j \in 1..Len(listing) : i < j => listing[i].created >= listing[j].created

\* what list_backups may return: the listed files, each once, newest first;
\* files of one creation time come in the order os.listdir gave them, which
\* is any order
ListBackups(dir) ==
    {l \in [1..Cardinality(ListedFiles(dir)) -> ListedFiles(dir)] :
        /\ \A i, j \in 1..Len(l) : l[i] = l[j] => i = j
        /\ NewestFirst(l)}

\* cleanup_old_backups, lines 321-329: the files of backups[keep_count:]
Doomed(listing, keep) == {listing[i] : i \in (keep + 1)..Len(listing)}

\* the clock, in seconds, and the keep_count values
MaxClock == 1
Clock == 0..MaxClock
MaxKeep == 2

CleanupNames ==
    {BackupName("expense_data_backup", t) : t \in Clock}
    \cup {FixedName("manual.json"), FixedName("pre_restore_backup")}

\* create_backup(name) at time now, no file of the directory being younger;
\* a name made by the call itself carries the time
CreateBackupAt(name, now) ==
    /\ name.ts \in {-1, now}
    /\ \A f \in backups : f.created <= now
    /\ backups' = {f \in backups : f.name # name}
                     \cup {[name |-> name, content |-> store, created |-> now]}
    /\ mres' = Ended("create_backup", "path", "none", NoDoc, FALSE)
                @@ [name |-> name]
    /\ UNCHANGED <<store, tmp, data, last, stepVars, migVars>>

\* cleanup_old_backups(keep_count=keep); listing is what list_backups returns
\* and failing the files os.remove raises OSError for
CleanupOldBackupsCall(keep, listing, failing) ==
    /\ listing \in ListBackups(backups)
    /\ failing \subseteq ListedFiles(backups)
    /\ LET deleted == IF Len(listing) <= keep THEN {}
                      ELSE Doomed(listing, keep) \ failing
       IN  /\ backups' = backups \ deleted
           /\ mres' = [op |-> "cleanup_old_backups", keep |-> keep,
                       failing |-> failing, deleted |-> Cardinality(deleted)]
    /\ UNCHANGED <<store, tmp, data, last, stepVars, migVars>>

InitCleanup ==
    /\ store = ObjectFile(CurrentDoc)
    /\ tmp = Absent /\ backups = {} /\ data = Unloaded
    /\ last = Called("none", TRUE, NoTx, NoCat, NoneStr)
    /\ IdleSteps /\ IdleMigration /\ IdleManager

NextCleanup ==
    \/ \E name \in CleanupNames, now \in Clock : CreateBackupAt(name, now)
    \/ \E keep \in 0..MaxKeep, listing \in ListBackups(backups),
          failing \in SUBSET ListedFiles(backups) :
          CleanupOldBackupsCall(keep, listing, failing)

SpecCleanup == InitCleanup /\ [][NextCleanup]_vars

\* K is a choice of the n most recently created of the listed files
NewestOf(K, dir, n) ==
    /\ K \subseteq ListedFiles(dir)
    /\ Cardinality(K) = n
    /\ \A k \in K, g \in ListedFiles(dir) \ K : k.created >= g.created

\* C21: cleanup_old_backups(keep=N) with M listed backups.  With M <= N
\* nothing is deleted and 0 is returned.  With M > N the files deleted are the
\* listed files beyond N most recently created ones, less those whose deletion
\* fails, and their number is returned; so with no failure exactly N remain,
\* the N most recent, and M - N is returned.
C21_CleanupKeepsNewest ==
    [][mres'.op = "cleanup_old_backups" =>
         LET M == Cardinality(ListedFiles(backups))
             N == mres'.keep
             gone == backups \ backups'
         IN  /\ backups' \subseteq backups
             /\ mres'.deleted = Cardinality(gone)
             /\ M <= N => gone = {} /\ mres'.deleted = 0
             /\ M > N =>
                   /\ \E K \in SUBSET ListedFiles(backups) :
                         /\ NewestOf(K, backups, N)
                         /\ gone = (ListedFiles(backups) \ K) \ mres'.failing
                   /\ mres'.failing = {} =>
                         /\ NewestOf(ListedFiles(backups'), backups, N)
                         /\ mres'.deleted = M - N]_vars

\* with three backups listed and one kept, one deletion failed and the other
\* was made
C21_Witness ==
    /\ mres.op = "cleanup_old_backups"
    /\ mres.keep = 1 /\ mres.deleted = 1
    /\ Cardinality(ListedFiles(backups)) = 2
    /\ \E f \in mres.failing : f \in backups

\* C29: every file the backup manager has put in the backup directory, the
\* pre-restore and the pre-migration backup included, is among what
\* list_backups reports, which is what cleanup_old_backups counts and prunes
C29_EveryBackupListed == \A f \in backups : f \in ListedFiles(backups)

-----------------------------------------------------------------------------
(* DataInitializer.initialize_data_file and BackupManager.restore_backup,  *)
(* statement by statement, in a process that may stop at any one           *)

InPlaceSteps == {"init_open", "init_dump", "restore_backup", "restore_open",
                 "restore_write"}

\* ensure_data_file_exists() finds no file and calls initialize_data_file
BeginInitialize(now) ==
    /\ pc = "idle" /\ store.kind = "absent"
    /\ pend' = [op |-> "initialize_data_file", pre |-> store,
                new |-> ObjectFile(CreateInitialData(now)), at |-> "running"]
    /\ pc' = "init_open"
    /\ UNCHANGED <<repoVars, mtmp, migVars, mgrVars>>

\* line 193: open(file_path, 'w') creates the store file, empty
InitializeOpen ==
    /\ pc = "init_open"
    /\ store' = Partial
    /\ pc' = "init_dump"
    /\ UNCHANGED <<tmp, backups, data, last, pend, mtmp, migVars, mgrVars>>

\* lines 193-197: json.dump, the file is closed and True returned
InitializeDump ==
    /\ pc = "init_dump"
    /\ store' = pend.new
    /\ pc' = "idle" /\ pend' = NoPend
    /\ mres' = Ended("initialize_data_file", "True", "none", NoDoc, FALSE)
    /\ UNCHANGED <<tmp, backups, data, last, mtmp, migVars>>

\* restore_backup(path) with a file at path (line 264)
BeginRestore(name) ==
    /\ pc = "idle" /\ FileAt(backups, name).kind # "absent"
    /\ pend' = [op |-> "restore_backup", pre |-> store, path |-> name,
                new |-> FileAt(backups, name), at |-> "running"]
    /\ pc' = "restore_backup"
    /\ UNCHANGED <<repoVars, mtmp, migVars, mgrVars>>

\* lines 268-270: the current file is copied to pre_restore_backup
RestoreBackupCurrent(copied) ==
    /\ pc = "restore_backup"
    /\ backups' = CreateBackup(backups, store, FixedName("pre_restore_backup"), copied)
    /\ pc' = "restore_open"
    /\ UNCHANGED <<store, tmp, data, last, pend, mtmp, migVars, mgrVars>>

\* line 273, shutil.copy2: the store file is opened for writing
RestoreOpen ==
    /\ pc = "restore_open"
    /\ store' = Partial
    /\ pc' = "restore_write"
    /\ UNCHANGED <<tmp, backups, data, last, pend, mtmp, migVars, mgrVars>>

\* lines 273-276, shutil.copy2: what the file at path holds by now is written,
\* the store file closed and True returned
RestoreWrite ==
    /\ pc = "restore_write"
    /\ store' = FileAt(backups, pend.path)
    /\ pc' = "idle" /\ pend' = NoPend
    /\ mres' = Ended("restore_backup", "True", "none", NoDoc, FALSE)
                @@ [path |-> pend.path]
    /\ UNCHANGED <<tmp, backups, data, last, mtmp, migVars>>

\* the process stops where it is
CrashInPlace ==
    /\ pc \in InPlaceSteps
    /\ pc' = "crashed"
    /\ pend' = [pend EXCEPT !.at = pc]
    /\ UNCHANGED <<repoVars, mtmp, migVars, mgrVars>>

\* a new process starts over the files the stopped one left
RestartInPlace ==
    /\ pc = "crashed"
    /\ pc' = "idle" /\ pend' = NoPend
    /\ UNCHANGED <<repoVars, mtmp, migVars, mgrVars>>

InitInPlace ==
    /\ store \in {Absent, ObjectFile(CurrentDoc)}
    /\ tmp = Absent /\ backups = {} /\ data = Unloaded
    /\ last = Called("none", TRUE, NoTx, NoCat, NoneStr)
    /\ IdleSteps /\ IdleMigration /\ IdleManager

NextInPlace ==
    \/ \E now \in Times : BeginInitialize(now)
    \/ InitializeOpen
    \/ InitializeDump
    \/ \E name \in RestorePaths : BeginRestore(name)
    \/ \E copied \in BOOLEAN : RestoreBackupCurrent(copied)
    \/ RestoreOpen
    \/ RestoreWrite
    \/ CrashInPlace
    \/ RestartInPlace
    \/ \E now \in Times, c \in BOOLEAN :
          \E n \in BackupNames(now) : pc = "idle" /\ CreateBackupCall(n, c)
    \/ \E doc \in SavedDocs, now \in Times :
          pc = "idle" /\ SaveDataCall(doc, FALSE, FALSE, now, TRUE)

SpecInPlace == InitInPlace /\ [][NextInPlace]_vars

\* C30: at every statement of initialize_data_file and of restore_backup, a
\* stop of the process included, the store file is absent, or holds what it
\* held before the call, or holds the whole content the call writes
C30_NeverPartlyWritten ==
    (pc # "idle" /\ pend.op \in {"initialize_data_file", "restore_backup"})
        => store \in {Absent, pend.pre, pend.new}

====
